---- MODULE Spec2Model ----
(***************************************************************************)
(* Campus second-hand trading platform (COMP2090SEF-Task1.py).             *)
(*                                                                         *)
(* Records (User, Seller, Buyer, Book, Order) are TLA+ records whose       *)
(* fields are the instance attributes the constructors set, plus cls, the  *)
(* class of the object.  An object of no record class (a plain object())   *)
(* is [cls |-> "object"].  Prices are integers counted in hundredths       *)
(* (1990 is 19.90).  A call's outcome is kept in the variable last: its    *)
(* return value, the exception that reached the caller, the exception the  *)
(* manager caught, and the state before the call.                          *)
(*                                                                         *)
(* Spec        the manager: the driver builds a record and adds it, or     *)
(*             removes by id (DataHandler.add / remove).                   *)
(* SpecRecords one record held by the driver: construction and the guarded *)
(*             updates (change_email, update_condition, update_status).    *)
(***************************************************************************)
EXTENDS Integers, Sequences, FiniteSets, TLC

VARIABLES
    items,  \* DataHandler.items: the manager's list, in insertion order
    rec,    \* the record the driver's variable holds (NoRec: unbound);
            \* used by SpecRecords, which calls the record's own methods
    last    \* the last call: op, arg, ret ("True", "False", "None"),
            \* raised (the exception that reached the caller), caught (the
            \* exception add caught), built (the constructor call that made
            \* the item) and before (items and rec before the call)

vars == <<items, rec, last>>

(* ------------------------------ bounds -------------------------------- *)

\* The longest list the manager is driven to.
MaxItems == 3

\* Identifiers handed to the constructors and to remove.  Nothing in the
\* program keeps user, book and order ids apart, so one set serves all.
Ids == {"BK001", "OD001"}

\* Prices and totals handed to the constructors, in hundredths.
MgrPrices == {-5, 0, 25}
RecPrices == {-5, 0, 25, 1994}

MgrEmails == {"anna@school.edu"}
RecEmails == {"ben@school.edu", "ben@gmail.com"}
NewEmails == {"ben@school.edu", "ben_new@school.edu.hk", "ben@gmail.com", "school.edu"}

MgrConds == {"like_new"}
RecConds == {"like_new", "damaged"}
NewConds == {"new", "like_new", "used", "sold", "damaged", "NEW"}

NewStatuses == {"pending", "paid", "shipped", "completed", "cancelled", "refunded"}

(* ------------------------------ objects ------------------------------- *)

\* No record: the driver's variable is unbound.
NoRec == [cls |-> "None"]

\* A plain object(): no attribute and no method of the record classes.
Object == [cls |-> "object"]

UserClasses == {"User", "Seller", "Buyer"}

\* The methods each class defines or inherits.
Methods(cls) ==
    IF cls \in UserClasses THEN {"get_info", "change_email", "__str__"}
    ELSE IF cls = "Book" THEN {"_check_price", "update_condition", "get_book_details"}
    ELSE IF cls = "Order" THEN {"_check_price", "update_status", "get_order_details"}
    ELSE {}

\* hasattr(o, name): an instance attribute or a method of the class.
hasattr(o, name) == name \in ((DOMAIN o) \ {"cls"}) \cup Methods(o.cls)

\* "sub in s" on strings.
Contains(sub, s) ==
    \E i \in 1..(Len(s) - Len(sub) + 1) : SubSeq(s, i, i + Len(sub) - 1) = sub

\* "x in lst" on a list.
InList(x, lst) == \E i \in DOMAIN lst : lst[i] = x

\* round(price, 1) for price >= 0 in hundredths.  A tie (last digit 5) goes
\* to the even tenth, which is what round() does on the ties a float holds
\* exactly (x.25, x.75); the inputs hold no other tie.
round1(price) ==
    LET q == price \div 10
        r == price % 10
    IN  IF r < 5 THEN q * 10
        ELSE IF r > 5 THEN (q + 1) * 10
        ELSE IF q % 2 = 0 THEN q * 10 ELSE (q + 1) * 10

(* ------------------------------- users -------------------------------- *)

User_init(name, user_id, email) ==
    [cls |-> "User", _name |-> name, _id |-> user_id, _email |-> email]

Seller_init(name, user_id, email, store) ==
    [cls |-> "Seller", _name |-> name, _id |-> user_id, _email |-> email,
     store_name |-> store]

Buyer_init(name, user_id, email, address) ==
    [cls |-> "Buyer", _name |-> name, _id |-> user_id, _email |-> email,
     shipping_addr |-> address]

User_get_info(o) == [id |-> o._id, name |-> o._name, email |-> o._email]

\* get_info, dispatched on the class (Seller and Buyer override it).
get_info(o) ==
    IF o.cls = "Seller" THEN User_get_info(o) @@ ("store" :> o.store_name)
    ELSE IF o.cls = "Buyer" THEN User_get_info(o) @@ ("shipping_address" :> o.shipping_addr)
    ELSE User_get_info(o)

change_email_always(o, new_email) ==
    [obj |-> [o EXCEPT !._email = new_email], ret |-> TRUE]

change_email(o, new_email) ==
    IF Contains("@school.edu", new_email)
    THEN [obj |-> [o EXCEPT !._email = new_email], ret |-> TRUE]
    ELSE [obj |-> o, ret |-> FALSE]

(* ------------------------------- books -------------------------------- *)

Book_check_price_unchecked(price) == [raised |-> "none", value |-> round1(price)]

Book_check_price(price) ==
    IF price < 0 THEN [raised |-> "ValueError", value |-> 0]
    ELSE [raised |-> "none", value |-> round1(price)]

Book_init(book_id, title, author, seller_id, price, condition) ==
    LET p == Book_check_price(price)
    IN  IF p.raised # "none" THEN [raised |-> p.raised, obj |-> NoRec]
        ELSE [raised |-> "none",
              obj |-> [cls |-> "Book", book_id |-> book_id, title |-> title,
                       author |-> author, seller_id |-> seller_id,
                       price |-> p.value, condition |-> condition]]

valid_conds == <<"new", "like_new", "used", "sold">>

update_condition(o, new_cond) ==
    IF InList(new_cond, valid_conds)
    THEN [obj |-> [o EXCEPT !.condition = new_cond], ret |-> TRUE]
    ELSE [obj |-> o, ret |-> FALSE]

get_book_details(o) ==
    [id |-> o.book_id, title |-> o.title, author |-> o.author,
     seller |-> o.seller_id, price |-> o.price, condition |-> o.condition]

(* ------------------------------- orders ------------------------------- *)

Order_check_price(price) ==
    IF price < 0 THEN [raised |-> "ValueError", value |-> 0]
    ELSE [raised |-> "none", value |-> round1(price)]

Order_init(order_id, buyer_id, book_id, total) ==
    LET p == Order_check_price(total)
    IN  IF p.raised # "none" THEN [raised |-> p.raised, obj |-> NoRec]
        ELSE [raised |-> "none",
              obj |-> [cls |-> "Order", order_id |-> order_id, buyer_id |-> buyer_id,
                       book_id |-> book_id, total |-> p.value, status |-> "pending"]]

valid_statuses == <<"pending", "paid", "shipped", "completed", "cancelled">>

\* A status machine that only moves forward: what the code does not do.
update_status_forward(o, new_status) ==
    IF /\ InList(new_status, valid_statuses)
       /\ \E i, j \in DOMAIN valid_statuses :
             /\ valid_statuses[i] = o.status
             /\ valid_statuses[j] = new_status
             /\ i <= j
    THEN [obj |-> [o EXCEPT !.status = new_status], ret |-> TRUE]
    ELSE [obj |-> o, ret |-> FALSE]

update_status(o, new_status) ==
    IF InList(new_status, valid_statuses)
    THEN [obj |-> [o EXCEPT !.status = new_status], ret |-> TRUE]
    ELSE [obj |-> o, ret |-> FALSE]

get_order_details(o) ==
    [id |-> o.order_id, buyer |-> o.buyer_id, book |-> o.book_id,
     total |-> o.total, status |-> o.status]

(* --------------------------- DataHandler ------------------------------ *)

\* The index of the first element of a non-empty set of indices.
First(S) == CHOOSE i \in S : \A j \in S : i <= j

RECURSIVE UserDuplicate(_, _, _)
\* The loop of the user branch, from element i on: i.get_info() is called on
\* every stored element, so the first element without get_info ends the loop
\* with AttributeError, the first with the same id with ValueError.
UserDuplicate(its, item_id, i) ==
    IF i > Len(its) THEN "none"
    ELSE IF ~hasattr(its[i], "get_info") THEN "AttributeError"
    ELSE IF get_info(its[i])["id"] = item_id THEN "ValueError"
    ELSE UserDuplicate(its, item_id, i + 1)

BookDuplicate_never(its, item_id) == FALSE

\* The loop of the book branch: some stored element has a book_id attribute
\* equal to item_id.
BookDuplicate(its, item_id) ==
    \E i \in DOMAIN its : hasattr(its[i], "book_id") /\ its[i].book_id = item_id

OrderDuplicate_never(its, item_id) == FALSE

\* The loop of the order branch.
OrderDuplicate(its, item_id) ==
    \E i \in DOMAIN its : hasattr(its[i], "order_id") /\ its[i].order_id = item_id

\* The body of add's try block: the list it leaves and the exception that
\* ends it ("none" when it reaches return True).  With none of the three
\* capabilities no branch binds item_id, the item is appended, and the
\* print that follows the append reads the unbound item_id.
add_try(its, item) ==
    IF hasattr(item, "get_info") THEN
        LET e == UserDuplicate(its, get_info(item)["id"], 1)
        IN  IF e # "none" THEN [items |-> its, exc |-> e]
            ELSE [items |-> Append(its, item), exc |-> "none"]
    ELSE IF hasattr(item, "get_book_details") THEN
        IF BookDuplicate(its, item.book_id)
        THEN [items |-> its, exc |-> "ValueError"]
        ELSE [items |-> Append(its, item), exc |-> "none"]
    ELSE IF hasattr(item, "get_order_details") THEN
        IF OrderDuplicate(its, item.order_id)
        THEN [items |-> its, exc |-> "ValueError"]
        ELSE [items |-> Append(its, item), exc |-> "none"]
    ELSE [items |-> Append(its, item), exc |-> "UnboundLocalError"]

\* add: the try block, then "except ValueError" and "except Exception",
\* which between them catch whatever the block raises.
add(its, item) ==
    LET t == add_try(its, item)
    IN  IF t.exc = "none"
        THEN [items |-> t.items, ret |-> "True", raised |-> "none", caught |-> "none"]
        ELSE IF t.exc = "ValueError"
        THEN [items |-> t.items, ret |-> "False", raised |-> "none", caught |-> t.exc]
        ELSE [items |-> t.items, ret |-> "False", raised |-> "none", caught |-> t.exc]

\* The test remove makes on one stored element.
RemoveMatches(item, item_id) ==
    \/ hasattr(item, "get_info") /\ get_info(item)["id"] = item_id
    \/ hasattr(item, "book_id") /\ item.book_id = item_id
    \/ hasattr(item, "order_id") /\ item.order_id = item_id

remove(its, item_id) ==
    LET hit == {idx \in DOMAIN its : RemoveMatches(its[idx], item_id)}
    IN  IF hit = {} THEN [items |-> its, ret |-> "False"]
        ELSE [items |-> SubSeq(its, 1, First(hit) - 1)
                          \o SubSeq(its, First(hit) + 1, Len(its)),
              ret |-> "True"]

get_all(its) == its

(* ------------------------------ the state ----------------------------- *)

NotBuilt == [cls |-> "None"]

Call(op, arg, ret, raised, caught, built) ==
    [op |-> op, arg |-> arg, ret |-> ret, raised |-> raised, caught |-> caught,
     built |-> built, before |-> [items |-> items, rec |-> rec]]

Init ==
    /\ items = <<>>
    /\ rec = NoRec
    /\ last = [op |-> "init", arg |-> "", ret |-> "None", raised |-> "none",
               caught |-> "none", built |-> NotBuilt,
               before |-> [items |-> <<>>, rec |-> NoRec]]

(* ------------------------ the manager's driver ------------------------ *)

\* manager.add(item), item built by the constructor call `built`.
Add(item, built) ==
    LET r == add(items, item)
    IN  /\ Len(r.items) <= MaxItems
        /\ items' = r.items
        /\ last' = Call("add", item, r.ret, r.raised, r.caught, built)
        /\ UNCHANGED rec

\* A constructor raised: the driver's add is never reached.
ConstructionFailed(built, exc) ==
    /\ last' = Call(built.cls, built, "None", exc, "none", built)
    /\ UNCHANGED <<items, rec>>

AddUser ==
    \E user_id \in Ids, email \in MgrEmails :
        Add(User_init("Cara", user_id, email), [cls |-> "User"])

AddSeller ==
    \E user_id \in Ids, email \in MgrEmails :
        Add(Seller_init("Anna", user_id, email, "Anna's Book Shop"), [cls |-> "Seller"])

AddBuyer ==
    \E user_id \in Ids, email \in MgrEmails :
        Add(Buyer_init("Ben", user_id, email, "Dorm 5, Room 102"), [cls |-> "Buyer"])

AddBook ==
    \E book_id \in Ids, price \in MgrPrices, condition \in MgrConds :
        LET c == Book_init(book_id, "Python Basics", "John Smith", "S001", price, condition)
            built == [cls |-> "Book", price |-> price]
        IN  IF c.raised # "none" THEN ConstructionFailed(built, c.raised)
            ELSE Add(c.obj, built)

AddOrder ==
    \E order_id \in Ids, book_id \in Ids, total \in MgrPrices :
        LET c == Order_init(order_id, "B001", book_id, total)
            built == [cls |-> "Order", price |-> total]
        IN  IF c.raised # "none" THEN ConstructionFailed(built, c.raised)
            ELSE Add(c.obj, built)

AddObject == Add(Object, [cls |-> "object"])

Remove ==
    \E item_id \in Ids :
        LET r == remove(items, item_id)
        IN  /\ items' = r.items
            /\ last' = Call("remove", item_id, r.ret, "none", "none", NotBuilt)
            /\ UNCHANGED rec

Next ==
    \/ AddUser
    \/ AddSeller
    \/ AddBuyer
    \/ AddBook
    \/ AddOrder
    \/ AddObject
    \/ Remove

Spec == Init /\ [][Next]_vars

(* ------------------------ one record, updated ------------------------ *)

\* rec = Class(...): the constructor returned obj.
Bound(obj, built) ==
    /\ rec' = obj
    /\ last' = Call(built.cls, built, "None", "none", "none", built)
    /\ UNCHANGED items

\* The constructor raised: the exception reaches the driver and the variable
\* keeps what it held.
Unbound(built, exc) ==
    /\ last' = Call(built.cls, built, "None", exc, "none", built)
    /\ UNCHANGED <<items, rec>>

NewUser ==
    \E user_id \in Ids, email \in RecEmails :
        Bound(User_init("Cara", user_id, email), [cls |-> "User"])

NewSeller ==
    \E user_id \in Ids, email \in RecEmails :
        Bound(Seller_init("Anna", user_id, email, "Anna's Book Shop"), [cls |-> "Seller"])

NewBuyer ==
    \E user_id \in Ids, email \in RecEmails :
        Bound(Buyer_init("Ben", user_id, email, "Dorm 5, Room 102"), [cls |-> "Buyer"])

NewBook ==
    \E book_id \in Ids, price \in RecPrices, condition \in RecConds :
        LET c == Book_init(book_id, "Python Basics", "John Smith", "S001", price, condition)
            built == [cls |-> "Book", price |-> price]
        IN  IF c.raised # "none" THEN Unbound(built, c.raised) ELSE Bound(c.obj, built)

NewOrder ==
    \E order_id \in Ids, book_id \in Ids, total \in RecPrices :
        LET c == Order_init(order_id, "B001", book_id, total)
            built == [cls |-> "Order", price |-> total]
        IN  IF c.raised # "none" THEN Unbound(built, c.raised) ELSE Bound(c.obj, built)

\* rec.method(value), where the method returned r.
Updated(op, value, r) ==
    /\ rec' = r.obj
    /\ last' = Call(op, value, IF r.ret THEN "True" ELSE "False", "none", "none", NotBuilt)
    /\ UNCHANGED items

ChangeEmail ==
    /\ hasattr(rec, "change_email")
    /\ \E new_email \in NewEmails :
           Updated("change_email", new_email, change_email(rec, new_email))

UpdateCondition ==
    /\ hasattr(rec, "update_condition")
    /\ \E new_cond \in NewConds :
           Updated("update_condition", new_cond, update_condition(rec, new_cond))

UpdateStatus ==
    /\ hasattr(rec, "update_status")
    /\ \E new_status \in NewStatuses :
           Updated("update_status", new_status, update_status(rec, new_status))

NextRecords ==
    \/ NewUser
    \/ NewSeller
    \/ NewBuyer
    \/ NewBook
    \/ NewOrder
    \/ ChangeEmail
    \/ UpdateCondition
    \/ UpdateStatus

SpecRecords == Init /\ [][NextRecords]_vars

(* ------------------- the vocabulary of the properties ----------------- *)

IsUser(o) == o.cls \in UserClasses

\* A user, a Book or an Order.
IsRecord(o) == o.cls \in UserClasses \cup {"Book", "Order"}

\* "user", "Book" or "Order": Seller and Buyer are users.
Kind(o) == IF IsUser(o) THEN "user" ELSE o.cls

\* The id of a record: the "id" entry of its projection.
RecordId(o) ==
    IF IsUser(o) THEN get_info(o)["id"]
    ELSE IF o.cls = "Book" THEN get_book_details(o)["id"]
    ELSE get_order_details(o)["id"]

\* The manager holds records of one kind.
Homogeneous(its) ==
    \/ \A i \in DOMAIN its : IsUser(its[i])
    \/ \A i \in DOMAIN its : its[i].cls = "Book"
    \/ \A i \in DOMAIN its : its[i].cls = "Order"

\* its without its k-th element.
Without(its, k) == SubSeq(its, 1, k - 1) \o SubSeq(its, k + 1, Len(its))

\* The positions of its that hold a record with the given id.
WithId(its, id) == {i \in DOMAIN its : IsRecord(its[i]) /\ RecordId(its[i]) = id}

ConditionSet == {"new", "like_new", "used", "sold"}
StatusSet == {"pending", "paid", "shipped", "completed", "cancelled"}

\* The inputs of change_email that contain "@school.edu".
CampusEmails == {"ben@school.edu", "ben_new@school.edu.hk"}

\* Records a later call of the batch may pass to add.
Probes ==
    {User_init("Cara", id, "anna@school.edu") : id \in Ids}
    \cup {Book_init(id, "Python Basics", "John Smith", "S001", 0, "like_new").obj : id \in Ids}
    \cup {Order_init(id, "B001", b, 0).obj : id \in Ids, b \in Ids}

(* ------------------------------ properties ---------------------------- *)

\* C1: in a manager that holds records of one kind (all users, all Books or
\* all Orders) no two stored records have the same id.
C1_UniqueIds ==
    Homogeneous(items) =>
        \A i, j \in DOMAIN items : i # j => RecordId(items[i]) # RecordId(items[j])

\* A manager of two records of one kind that has just rejected a third.
C1_Witness ==
    /\ Homogeneous(items)
    /\ Len(items) = 2
    /\ last.op = "add"
    /\ last.caught = "ValueError"

\* C2 as stated: add of a user, Book or Order to a manager that stores a
\* record with the same id, of whatever kind, returns False and leaves the
\* list as it was.
C2_AnyKind ==
    (/\ last.op = "add"
     /\ IsRecord(last.arg)
     /\ WithId(last.before.items, RecordId(last.arg)) # {})
    => (last.ret = "False" /\ items = last.before.items)

\* C2 amended: add of a user, Book or Order to a manager that stores a
\* record of the same kind with the same id returns False and leaves the
\* list as it was.
C2_SameKind ==
    (/\ last.op = "add"
     /\ IsRecord(last.arg)
     /\ \E i \in WithId(last.before.items, RecordId(last.arg)) :
            Kind(last.before.items[i]) = Kind(last.arg))
    => (last.ret = "False" /\ items = last.before.items)

\* A Book was added to a manager of two records that stores a Book with its id.
C2_Witness ==
    /\ last.op = "add"
    /\ last.arg.cls = "Book"
    /\ Len(last.before.items) = 2
    /\ \E i \in WithId(last.before.items, RecordId(last.arg)) :
           last.before.items[i].cls = "Book"
    /\ last.ret = "False"

\* C3: add of a user, Book or Order whose id no stored record has returns
\* True and appends the item; get_all() is the old list followed by the item.
C3_FreshIdAppends ==
    (/\ last.op = "add"
     /\ IsRecord(last.arg)
     /\ WithId(last.before.items, RecordId(last.arg)) = {})
    => (/\ last.ret = "True"
        /\ get_all(items) = Append(get_all(last.before.items), last.arg))

\* C4: remove(id) returns True exactly when a stored record has that id; it
\* then deletes the first such record and keeps the rest in order; otherwise
\* it returns False and the list is as it was.
C4_RemoveById ==
    last.op = "remove" =>
        LET hit == WithId(last.before.items, last.arg)
        IN  /\ (last.ret = "True") <=> (hit # {})
            /\ hit # {} => items = Without(last.before.items, First(hit))
            /\ hit = {} => items = last.before.items

\* C5: add never raises; when it caught an exception it returned False and
\* the manager answers the later add and remove calls of the batch as it
\* would have answered them had the failed call not been made.
C5_FailedAddLeavesManagerUsable ==
    last.op = "add" =>
        /\ last.raised = "none"
        /\ last.ret \in {"True", "False"}
        /\ last.caught # "none" =>
              /\ last.ret = "False"
              /\ \A x \in Probes : add(items, x).ret = add(last.before.items, x).ret
              /\ \A id \in Ids : remove(items, id).ret = remove(last.before.items, id).ret

\* C6: a Book's condition is one of new, like_new, used, sold.
C6_ConditionInSet == rec.cls = "Book" => rec.condition \in ConditionSet

\* C7: an Order is pending right after construction; update_status(s) with s
\* in the status set succeeds from every status and makes the status s; the
\* status never leaves the set.
C7_StatusAnyToAny ==
    /\ (last.op = "Order" /\ last.raised = "none") =>
           (rec.cls = "Order" /\ rec.status = "pending")
    /\ (last.op = "update_status" /\ last.arg \in StatusSet) =>
           (last.ret = "True" /\ rec.status = last.arg)
    /\ rec.cls = "Order" => rec.status \in StatusSet

\* A completed Order was set back to pending.
C7_Witness ==
    /\ last.op = "update_status"
    /\ last.before.rec.status = "completed"
    /\ last.arg = "pending"
    /\ last.ret = "True"
    /\ rec.status = "pending"

\* C8: a guarded update returns True and changes the guarded field, and only
\* it, exactly when the value passes the check; otherwise it returns False,
\* raises nothing and leaves every field as it was.
C8_GuardedUpdates ==
    /\ last.op = "change_email" =>
           /\ last.raised = "none"
           /\ IF last.arg \in CampusEmails
              THEN last.ret = "True" /\ rec = [last.before.rec EXCEPT !._email = last.arg]
              ELSE last.ret = "False" /\ rec = last.before.rec
    /\ last.op = "update_condition" =>
           /\ last.raised = "none"
           /\ IF last.arg \in ConditionSet
              THEN last.ret = "True" /\ rec = [last.before.rec EXCEPT !.condition = last.arg]
              ELSE last.ret = "False" /\ rec = last.before.rec
    /\ last.op = "update_status" =>
           /\ last.raised = "none"
           /\ IF last.arg \in StatusSet
              THEN last.ret = "True" /\ rec = [last.before.rec EXCEPT !.status = last.arg]
              ELSE last.ret = "False" /\ rec = last.before.rec

\* A user with a campus address was refused an address of another domain.
C8_Witness ==
    /\ last.op = "change_email"
    /\ last.arg = "ben@gmail.com"
    /\ last.ret = "False"
    /\ rec._email = "ben_new@school.edu.hk"

\* C9: a Book built with price < 0, or an Order with total < 0, raises
\* ValueError to the driver and gives no record, so the add is never made;
\* with price or total >= 0 the record is built and handed to add; no stored
\* Book has a negative price and no stored Order a negative total.
C9_NegativePriceRejected ==
    /\ last.built.cls \in {"Book", "Order"} =>
           IF last.built.price < 0
           THEN /\ last.op = last.built.cls
                /\ last.raised = "ValueError"
                /\ items = last.before.items
           ELSE /\ last.op = "add"
                /\ last.raised = "none"
                /\ last.arg.cls = last.built.cls
    /\ \A i \in DOMAIN items :
           /\ items[i].cls = "Book" => items[i].price >= 0
           /\ items[i].cls = "Order" => items[i].total >= 0

\* A Book with a negative price was refused while a Book of price 0 is stored.
C9_Witness ==
    /\ last.built.cls = "Book"
    /\ last.built.price < 0
    /\ last.raised = "ValueError"
    /\ \E i \in DOMAIN items : items[i].cls = "Book" /\ items[i].price = 0

\* C10: when add returns False the list is as it was, whatever the item; the
\* list grows by one exactly when add returns True.
C10_FalseMeansUnchanged ==
    last.op = "add" =>
        /\ last.ret = "False" => items = last.before.items
        /\ (Len(items) = Len(last.before.items) + 1) <=> (last.ret = "True")

====
